---- MODULE Spec2Model ----
(***************************************************************************)
(* A model of letterboxd-list-sync (src/src/main.rs): one run of sync_list *)
(* authenticates, loads the film id cache (.movies.json), resolves the     *)
(* movie names to film ids (cache first, search request otherwise),        *)
(* fetches the films saved on the list page by page, saves the resolved    *)
(* ids to the cache, computes the films to add and to remove, and patches  *)
(* the list.  Runs follow one another in the same working directory.       *)
(***************************************************************************)
EXTENDS Integers, Sequences, FiniteSets, TLC

\* Bounds of the model.
MaxNames == 2       \* longest sequence of movie names of the general runs
MaxRuns == 2        \* runs of the program in the same working directory
FanOut == 17        \* movie names of the fan-out run (FanOutSpec)

\* Movie names and film ids are one character long.
Names == {"a", "b", "c"}
NameOrder == <<"a", "b", "c">>
\* The names the files in the folder may have; "c" is the name of a file that
\* is no longer there.
Wanted == {"a", "b"}
FilmIds == {"1", "2"}
IdOrder == <<"1", "2">>

\* Option<T>: None is the empty sequence, Some(x) the sequence of x alone.
None == <<>>
Some(x) == <<x>>

Range(s) == {s[i] : i \in DOMAIN s}

Min(x, y) == IF x < y THEN x ELSE y

\* All the orders in which a hash set or hash map of S can be iterated.
Orders(S) == {o \in [1..Cardinality(S) -> S] : Range(o) = S}

RECURSIVE SumOver(_, _)
SumOver(f, S) ==
    IF S = {} THEN 0
    ELSE LET x == CHOOSE y \in S : TRUE IN f[x] + SumOver(f, S \ {x})

\* HashMap<String, String> with no entry.
EmptyMap == [n \in {} |-> ""]

\* All the maps from some of the names to film ids.
Maps == UNION {[D -> FilmIds] : D \in SUBSET Names}

(***************************************************************************)
(* The cache file: JSON text, one character per element.                   *)
(***************************************************************************)
Quote == "\""

NoFile == [exists |-> FALSE, bytes |-> <<>>]
FileOf(bytes) == [exists |-> TRUE, bytes |-> bytes]

EntryBytes(k, v) == <<Quote, k, Quote, ":", Quote, v, Quote>>

RECURSIVE EntriesBytes(_, _)
EntriesBytes(m, order) ==
    IF order = <<>> THEN <<>>
    ELSE EntryBytes(order[1], m[order[1]])
         \o (IF Len(order) > 1 THEN <<",">> ELSE <<>>)
         \o EntriesBytes(m, Tail(order))

\* serde_json::to_writer of a map iterated in the given order of its keys.
ToWriter(m, order) == <<"{">> \o EntriesBytes(m, order) \o <<"}">>

\* All the texts to_writer can produce for a map.
Encodings(m) == {ToWriter(m, o) : o \in Orders(DOMAIN m)}

ParseError == [ok |-> FALSE, map |-> EmptyMap]
ParseOk(m) == [ok |-> TRUE, map |-> m]

\* A map with one more entry; a repeated key keeps the last value.
Insert(m, k, v) == [n \in DOMAIN m \cup {k} |-> IF n = k THEN v ELSE m[n]]

\* The entries of a JSON object from position i on: "k":"v" then , or }.
\* Anything after the closing brace is an error (trailing characters).
RECURSIVE ParseEntries(_, _, _)
ParseEntries(s, i, acc) ==
    IF i + 7 > Len(s) THEN ParseError
    ELSE IF ~(/\ s[i] = Quote /\ s[i + 1] # Quote /\ s[i + 2] = Quote
              /\ s[i + 3] = ":"
              /\ s[i + 4] = Quote /\ s[i + 5] # Quote /\ s[i + 6] = Quote)
         THEN ParseError
    ELSE LET next == Insert(acc, s[i + 1], s[i + 5]) IN
         IF s[i + 7] = "," THEN ParseEntries(s, i + 8, next)
         ELSE IF s[i + 7] = "}" /\ i + 7 = Len(s) THEN ParseOk(next)
         ELSE ParseError

\* A reader that takes whatever it cannot parse for an empty map.
FromReaderLenient(s) == ParseOk(EmptyMap)

\* serde_json::from_reader::<HashMap<String, String>>.
FromReader(s) ==
    IF Len(s) < 2 \/ s[1] # "{" THEN ParseError
    ELSE IF s[2] = "}" THEN (IF Len(s) = 2 THEN ParseOk(EmptyMap) ELSE ParseError)
    ELSE ParseEntries(s, 2, EmptyMap)

\* OpenOptions::new().write(true).create(true): the file is created when it is
\* missing and is not truncated; the text is written from position 0.
WriteFile(file, text) ==
    FileOf(text \o SubSeq(file.bytes, Len(text) + 1, Len(file.bytes)))

IsPrefix(p, s) == Len(p) <= Len(s) /\ SubSeq(s, 1, Len(p)) = p

(***************************************************************************)
(* The letterboxd services, as the program sees them.                      *)
(***************************************************************************)
\* The film the search service knows under a name.
FilmOf(n) == IF n = "a" THEN "1" ELSE "2"

FilmSearchItem(id) == [kind |-> "FilmSearchItem", id |-> id]
OtherSearchItem == [kind |-> "ContributorSearchItem", id |-> ""]

\* The items of the search response for a movie name (per_page is 1): the film
\* when the catalog has one, else nothing or a best match that is no film.
SearchItems(catalog, movie) ==
    IF movie \in catalog THEN {<<FilmSearchItem(FilmOf(movie))>>}
    ELSE {<<>>, <<OtherSearchItem>>}

\* The films of the list, in the order the list service pages through them.
ListSeq(list) == SelectSeq(IdOrder, LAMBDA id : id \in list)

Offset(request) == IF request.cursor = None THEN 0 ELSE request.cursor[1]

\* The responses the list service may give to a page request: some of the
\* films from the cursor on and the cursor of the rest, if any.  A faulty
\* service (stuck) hands back a cursor that never advances.
ListEntriesResponses(list, request, stuck) ==
    LET all == ListSeq(list)
        o == Offset(request)
        rest == Len(all) - o
    IN  IF rest <= 0
        THEN {[items |-> <<>>, next |-> IF stuck THEN Some(o) ELSE None]}
        ELSE {[items |-> SubSeq(all, o + 1, o + n),
               next |-> IF stuck THEN Some(o)
                        ELSE IF n = rest THEN None ELSE Some(o + n)] :
              n \in 1..rest}

\* The list after the service applied an update request.
ApplyUpdate(list, req) ==
    (list \cup Range(req.entries)) \ Range(req.films_to_remove)

(***************************************************************************)
(* The functions of the program.                                           *)
(***************************************************************************)
PerPage == 100

\* Page requests are counted up to this number (a faulty service makes the
\* program ask for pages forever).
PageCountCap == Cardinality(FilmIds) + 2

DefaultRequest == [cursor |-> None, per_page |-> None]

film_id_set_from_response(items) == Range(items)

\* continue_or_break breaking at the first response, cursor or not.
BreakAtOnce(next, request, entries) ==
    [break |-> TRUE, request |-> request, entries |-> entries]

\* continue_or_break going on without the cursor of the response.
ContinueFromStart(next, request, entries) ==
    IF next = None
    THEN [break |-> TRUE, request |-> request, entries |-> entries]
    ELSE [break |-> FALSE,
          request |-> [cursor |-> None, per_page |-> Some(PerPage)],
          entries |-> entries]

continue_or_break(next, request, entries) ==
    IF next = None
    THEN [break |-> TRUE, request |-> request, entries |-> entries]
    ELSE [break |-> FALSE,
          request |-> [cursor |-> next, per_page |-> Some(PerPage)],
          entries |-> entries]

\* state.entries.extend(...)
Extend(entries, ids) == entries \cup ids

FilmDetails(name, id) == [name |-> name, id |-> id]

\* A cache lookup that never hits.
CacheGetMiss(cache, movie) == None

\* film_ids_cache.get(&movie)
CacheGet(cache, movie) ==
    IF movie \in DOMAIN cache THEN Some(cache[movie]) ELSE None

\* The future resolve_film_ids makes for one movie name: ready with the cached
\* id, or a search request that is pending.
FilmIdRequest(cache, movie) ==
    LET id == CacheGet(cache, movie) IN
    IF id # None
    THEN [pending |-> FALSE, details |-> FilmDetails(movie, id)]
    ELSE [pending |-> TRUE, details |-> FilmDetails(movie, None)]

\* The closure taking the id of the best match, film or not.
OnSearchResponseAnyItem(movie, items) ==
    IF items = <<>> THEN [name |-> movie, id |-> None]
    ELSE [name |-> movie, id |-> Some(items[1].id)]

\* The closure run on a search response.
OnSearchResponse(movie, items) ==
    IF items = <<>> THEN FilmDetails(movie, None)
    ELSE IF items[1].kind = "FilmSearchItem"
         THEN FilmDetails(movie, Some(items[1].id))
         ELSE FilmDetails(movie, None)

\* A filter_map keeping a film without an id, under an empty id.
FilterMapPlaceholder(details) ==
    Some(<<details.name, IF details.id # None THEN details.id[1] ELSE "">>)

\* filter_map of FromIterator<FilmDetails>: the entry of a film with an id.
FilterMap(details) ==
    IF details.id # None THEN Some(<<details.name, details.id[1]>>) ELSE None

\* FromIterator<FilmDetails> for HashMap<String, String>.
RECURSIVE FromIter(_, _, _)
FromIter(responses, i, acc) ==
    IF i > Len(responses) THEN acc
    ELSE LET e == FilterMap(responses[i]) IN
         FromIter(responses, i + 1,
                  IF e = None THEN acc ELSE Insert(acc, e[1][1], e[1][2]))

\* Saving the loaded cache again instead of the resolved ids.
SavedMapLoaded(film_ids, cache) == cache

\* A join that is ready as soon as one of its futures is.
AnyReady(fs) == fs = <<>> \/ \E i \in DOMAIN fs : ~fs[i].pending

\* join_all is ready when every one of its futures is.
AllReady(fs) == \A i \in DOMAIN fs : ~fs[i].pending

\* A failed save ending the run.
AfterSaveOrFail(ok) == IF ok THEN "saved" ELSE "failed"

\* Where the run goes after save_ids_list_to_cache returned: on, whether the
\* save succeeded or not.
AfterSave(ok) == "saved"

\* The exit status of the process: main panics on an error of sync_list.
ExitCode(p) == IF p = "done" THEN 0 ELSE IF p = "failed" THEN 101 ELSE -1

\* The map save_ids_list_to_cache is called with.
SavedMap(film_ids, cache) == film_ids

\* film_ids.values().cloned().collect::<HashSet<String>>()
Ids(film_ids) == {film_ids[n] : n \in DOMAIN film_ids}

\* HashSet::difference
Difference(A, B) == {x \in A : x \notin B}

\* The difference taken the wrong way round.
ToAddSwapped(ids, saved) == {x \in saved : x \notin ids}

ToAdd(ids, saved) == Difference(ids, saved)

ToRemove(ids, saved) == Difference(saved, ids)

\* An update only when there are films to add.
NeedsUpdateAddOnly(to_remove, to_add) == to_add # <<>>

NeedsUpdate(to_remove, to_add) == to_remove # <<>> \/ to_add # <<>>

create_update_request(list_name, films_to_remove, films_to_add) ==
    [name |-> list_name, entries |-> films_to_add,
     films_to_remove |-> films_to_remove]

(***************************************************************************)
(* The state.                                                              *)
(***************************************************************************)
VARIABLES
    movie_names,     \* the movie names extracted from the files, in order
    catalog,         \* the names the search service finds a film for
    stuck,           \* the list service never advances its cursor
    dry_run,         \* the command line asks for a dry run (--dry-run)
    cacheFile,       \* .movies.json in the working directory
    list,            \* the films on the list, at the list service
    run,             \* the number of the current run
    prevOutcome,     \* how the previous run ended: "none", "done", "failed"
    prevResolved,    \* the names the previous run searched, resolved and saved
    pc,              \* where the current run is
    err,             \* what failed, when pc = "failed"
    errKind,         \* "fatal" or "transient"
    film_ids_cache,  \* the loaded cache
    futs,            \* the futures given to join_all, one per movie name
    searchCalls,     \* search_movie calls of this run, per name
    request,         \* FetchState.request
    entries,         \* FetchState.entries
    pageInFlight,    \* a list_entries request awaits its response
    pageRequests,    \* list_entries calls of this run
    sent,            \* the requests list_entries was called with in this run
    pages,           \* the responses list_entries got in this run
    saved,           \* the result of fetch_saved_films
    film_ids,        \* the result of resolve_film_ids
    saveAttempts,    \* save_ids_list_to_cache calls of this run
    saveArg,         \* the map it was called with
    saveOk,          \* it returned Ok
    to_add,
    to_remove,
    update,          \* the update request, if any
    patchCalls,      \* patch_list calls of this run
    patchSent        \* the request patch_list was called with

inputs == <<movie_names, catalog, stuck, dry_run>>
world == <<cacheFile, list>>
runs == <<run, prevOutcome, prevResolved>>
errs == <<err, errKind>>
resolving == <<futs, searchCalls>>
fetching == <<request, entries, pageInFlight, pageRequests, sent, pages, saved>>
saving == <<film_ids, saveAttempts, saveArg, saveOk>>
updating == <<to_add, to_remove, update, patchCalls, patchSent>>

vars == <<inputs, world, runs, pc, errs, film_ids_cache, resolving, fetching,
          saving, updating>>

\* The maps an earlier run may have saved: ids of wanted names and of the
\* name of the file that is gone.
EarlierMaps == {m \in Maps : "c" \in DOMAIN m => m["c"] = "1"}

\* The keys of a map in the order of the names.
KeysInOrder(m) == SelectSeq(NameOrder, LAMBDA n : n \in DOMAIN m)

\* The cache files a run may find: none, one saved earlier (its keys in the
\* order of the names), or a broken one.
CacheFiles ==
    {NoFile, FileOf(<<"{">>)}
      \cup {FileOf(ToWriter(m, KeysInOrder(m))) : m \in EarlierMaps}

\* The sequences of at most n movie names.
NameSeqs(n) == UNION {[1..k -> Wanted] : k \in 0..n}

\* The state of a run that has not begun.
FreshRun ==
    /\ pc = "main"
    /\ err = ""
    /\ errKind = ""
    /\ film_ids_cache = EmptyMap
    /\ futs = <<>>
    /\ searchCalls = [n \in Names |-> 0]
    /\ request = DefaultRequest
    /\ entries = {}
    /\ pageInFlight = FALSE
    /\ pageRequests = 0
    /\ sent = <<>>
    /\ pages = <<>>
    /\ saved = {}
    /\ film_ids = EmptyMap
    /\ saveAttempts = 0
    /\ saveArg = EmptyMap
    /\ saveOk = FALSE
    /\ to_add = <<>>
    /\ to_remove = <<>>
    /\ update = None
    /\ patchCalls = 0
    /\ patchSent = None

Init ==
    /\ movie_names \in NameSeqs(MaxNames)
    /\ catalog \in SUBSET Wanted
    /\ stuck \in BOOLEAN
    /\ dry_run \in BOOLEAN
    /\ cacheFile \in CacheFiles
    /\ list \in SUBSET FilmIds
    /\ run = 1
    /\ prevOutcome = "none"
    /\ prevResolved = {}
    /\ FreshRun

\* An error that is noted and then taken for success.
FailSwallowed(what, kind) ==
    /\ pc' = "done"
    /\ err' = what
    /\ errKind' = kind

Fail(what, kind) ==
    /\ pc' = "failed"
    /\ err' = what
    /\ errKind' = kind

(***************************************************************************)
(* The steps of a run of sync_list.                                        *)
(***************************************************************************)
\* main parses the command line against USAGE, which knows --pattern and
\* --recursive only: any other option, --dry-run too, is refused by docopt and
\* the process exits at once.
ParseArgs ==
    /\ pc = "main"
    /\ IF dry_run THEN Fail("usage", "fatal")
       ELSE pc' = "start" /\ UNCHANGED errs
    /\ UNCHANGED <<inputs, world, runs, film_ids_cache, resolving, fetching,
                   saving, updating>>

\* The credentials are read from the environment and the client signs in;
\* a missing variable or a refused sign-in ends the run.
Authenticate ==
    /\ pc = "start"
    /\ \E outcome \in {"ok", "env", "auth"} :
         IF outcome = "ok"
         THEN pc' = "authed" /\ UNCHANGED errs
         ELSE Fail(outcome, "fatal")
    /\ UNCHANGED <<inputs, world, runs, film_ids_cache, resolving, fetching,
                   saving, updating>>

\* load_ids_list_from_cache: no file is an empty cache, a file that does not
\* parse ends the run.
LoadIdsListFromCache ==
    /\ pc = "authed"
    /\ LET parsed == FromReader(cacheFile.bytes) IN
       IF ~cacheFile.exists
       THEN /\ film_ids_cache' = EmptyMap
            /\ pc' = "loaded"
            /\ UNCHANGED errs
       ELSE IF parsed.ok
       THEN /\ film_ids_cache' = parsed.map
            /\ pc' = "loaded"
            /\ UNCHANGED errs
       ELSE /\ Fail("cache", "fatal")
            /\ UNCHANGED film_ids_cache
    /\ UNCHANGED <<inputs, world, runs, resolving, fetching, saving, updating>>

\* resolve_film_ids and fetch_saved_films are called: join_all collects one
\* future per movie name, calling search_movie for every name the cache does
\* not hold, and the fetch loop is set up with its initial state.  Nothing has
\* been polled yet.
ResolveFilmIds ==
    /\ pc = "loaded"
    /\ futs' = [i \in 1..Len(movie_names) |->
                  FilmIdRequest(film_ids_cache, movie_names[i])]
    /\ searchCalls' = [n \in Names |->
                         Cardinality({i \in 1..Len(movie_names) :
                                        /\ movie_names[i] = n
                                        /\ futs'[i].pending})]
    /\ request' = DefaultRequest
    /\ entries' = {}
    /\ pc' = "fetching"
    /\ UNCHANGED <<inputs, world, runs, errs, film_ids_cache, pageInFlight,
                   pageRequests, sent, pages, saved, saving, updating>>

\* The fetch loop calls list_entries with the request of its state.
ListEntries ==
    /\ pc = "fetching"
    /\ ~pageInFlight
    /\ pageInFlight' = TRUE
    /\ pageRequests' = Min(pageRequests + 1, PageCountCap)
    /\ sent' = IF Len(sent) < PageCountCap THEN Append(sent, request) ELSE sent
    /\ UNCHANGED <<inputs, world, runs, pc, errs, film_ids_cache, resolving,
                   request, entries, pages, saved, saving, updating>>

\* The response of list_entries arrives: its films are added to the entries
\* and the loop goes on with the next cursor or breaks with the entries.
ListEntriesOk ==
    /\ pc = "fetching"
    /\ pageInFlight
    /\ \E response \in ListEntriesResponses(list, request, stuck) :
         LET state == continue_or_break(
                          response.next, request,
                          Extend(entries, film_id_set_from_response(response.items)))
         IN  /\ pages' = IF Len(pages) < PageCountCap
                         THEN Append(pages, response) ELSE pages
             /\ request' = state.request
             /\ entries' = state.entries
             /\ IF state.break
                THEN saved' = state.entries /\ pc' = "resolving"
                ELSE UNCHANGED <<saved, pc>>
    /\ pageInFlight' = FALSE
    /\ UNCHANGED <<inputs, world, runs, errs, film_ids_cache, resolving,
                   pageRequests, sent, saving, updating>>

\* list_entries fails: the fetch fails and with it the run.
ListEntriesErr ==
    /\ pc = "fetching"
    /\ pageInFlight
    /\ pageInFlight' = FALSE
    /\ Fail("fetch", "fatal")
    /\ futs' = <<>>
    /\ UNCHANGED <<inputs, world, runs, film_ids_cache, searchCalls, request,
                   entries, pageRequests, sent, pages, saved, saving, updating>>

\* The fetch is done and join_all is polled: the search of the i-th movie name
\* gets its response.
SearchOk(i) ==
    /\ pc = "resolving"
    /\ futs[i].pending
    /\ \E items \in SearchItems(catalog, movie_names[i]) :
         futs' = [futs EXCEPT ![i] =
                    [pending |-> FALSE,
                     details |-> OnSearchResponse(movie_names[i], items)]]
    /\ UNCHANGED <<inputs, world, runs, pc, errs, film_ids_cache, searchCalls,
                   fetching, saving, updating>>

\* The search of the i-th movie name fails: join_all fails at once, dropping
\* the other futures, and the error ends the run.
SearchErr(i) ==
    /\ pc = "resolving"
    /\ futs[i].pending
    /\ \E kind \in {"transient", "fatal"} : Fail("lookup", kind)
    /\ futs' = <<>>
    /\ UNCHANGED <<inputs, world, runs, film_ids_cache, searchCalls, fetching,
                   saving, updating>>

\* Every future is ready: the film details are collected into the map of film
\* ids and the map is saved to the cache; a failure to save is only reported.
CollectAndSave ==
    /\ pc = "resolving"
    /\ AllReady(futs)
    /\ film_ids' = FromIter([i \in DOMAIN futs |-> futs[i].details], 1, EmptyMap)
    /\ saveAttempts' = saveAttempts + 1
    /\ saveArg' = SavedMap(film_ids', film_ids_cache)
    /\ \E ok \in BOOLEAN :
         /\ saveOk' = ok
         /\ IF ok
            THEN \E text \in Encodings(saveArg') :
                   cacheFile' = WriteFile(cacheFile, text)
            ELSE UNCHANGED cacheFile
         /\ pc' = AfterSave(ok)
    /\ UNCHANGED <<inputs, list, runs, errs, film_ids_cache, resolving,
                   fetching, updating>>

\* The films to add and to remove are computed, each in the order its hash set
\* is iterated, and the update request is made unless both are empty.
ComputeDelta ==
    /\ pc = "saved"
    /\ \E add \in Orders(ToAdd(Ids(film_ids), saved)),
          remove \in Orders(ToRemove(Ids(film_ids), saved)) :
         /\ to_add' = add
         /\ to_remove' = remove
         /\ update' = IF NeedsUpdate(remove, add)
                      THEN Some(create_update_request("Collection", remove, add))
                      ELSE None
    /\ pc' = "requested"
    /\ UNCHANGED <<inputs, world, runs, errs, film_ids_cache, resolving,
                   fetching, saving, patchCalls, patchSent>>

\* With an update request patch_list is called.
PatchList ==
    /\ pc = "requested"
    /\ update # None
    /\ patchCalls' = patchCalls + 1
    /\ patchSent' = update
    /\ pc' = "patching"
    /\ UNCHANGED <<inputs, world, runs, errs, film_ids_cache, resolving,
                   fetching, saving, to_add, to_remove, update>>

\* Without one there is nothing to do and the run ends.
NothingToDo ==
    /\ pc = "requested"
    /\ update = None
    /\ pc' = "done"
    /\ UNCHANGED <<inputs, world, runs, errs, film_ids_cache, resolving,
                   fetching, saving, updating>>

\* The list service applied the update.
PatchListOk ==
    /\ pc = "patching"
    /\ list' = ApplyUpdate(list, patchSent[1])
    /\ pc' = "done"
    /\ UNCHANGED <<inputs, cacheFile, runs, errs, film_ids_cache, resolving,
                   fetching, saving, updating>>

\* The update failed: the run ends in error.
PatchListErr ==
    /\ pc = "patching"
    /\ Fail("patch", "fatal")
    /\ UNCHANGED <<inputs, world, runs, film_ids_cache, resolving, fetching,
                   saving, updating>>

\* The program is run again in the same working directory, on the same files.
NextRun ==
    /\ pc \in {"done", "failed"}
    /\ run < MaxRuns
    /\ run' = run + 1
    /\ prevOutcome' = pc
    /\ prevResolved' = IF pc = "done" /\ saveOk
                       THEN {n \in DOMAIN film_ids : searchCalls[n] > 0}
                       ELSE {}
    /\ pc' = "main"
    /\ err' = ""
    /\ errKind' = ""
    /\ film_ids_cache' = EmptyMap
    /\ futs' = <<>>
    /\ searchCalls' = [n \in Names |-> 0]
    /\ request' = DefaultRequest
    /\ entries' = {}
    /\ pageInFlight' = FALSE
    /\ pageRequests' = 0
    /\ sent' = <<>>
    /\ pages' = <<>>
    /\ saved' = {}
    /\ film_ids' = EmptyMap
    /\ saveAttempts' = 0
    /\ saveArg' = EmptyMap
    /\ saveOk' = FALSE
    /\ to_add' = <<>>
    /\ to_remove' = <<>>
    /\ update' = None
    /\ patchCalls' = 0
    /\ patchSent' = None
    /\ UNCHANGED <<inputs, world>>

Search == \E i \in DOMAIN futs : SearchOk(i) \/ SearchErr(i)

RunStep ==
    \/ ParseArgs
    \/ Authenticate
    \/ LoadIdsListFromCache
    \/ ResolveFilmIds
    \/ ListEntries
    \/ ListEntriesOk
    \/ ListEntriesErr
    \/ Search
    \/ CollectAndSave
    \/ ComputeDelta
    \/ PatchList
    \/ NothingToDo
    \/ PatchListOk
    \/ PatchListErr

Next == RunStep \/ NextRun

Spec == Init /\ [][Next]_vars

\* A run with more movie names than any bound on concurrent searches: FanOut
\* names, none of them cached.
FanOutInit ==
    /\ movie_names = [i \in 1..FanOut |-> "a"]
    /\ catalog \in SUBSET {"a"}
    /\ stuck = FALSE
    /\ dry_run = FALSE
    /\ cacheFile = NoFile
    /\ list = {}
    /\ run = 1
    /\ prevOutcome = "none"
    /\ prevResolved = {}
    /\ FreshRun

FanOutSpec == FanOutInit /\ [][RunStep]_vars

\* The program keeps running while it has a step to take.
FairSpec == Init /\ [][Next]_vars /\ WF_vars(Next)

(***************************************************************************)
(* Properties.                                                             *)
(***************************************************************************)
\* The search requests that were made and have not completed.
InFlight == Cardinality({i \in DOMAIN futs : futs[i].pending})

\* resolve_film_ids was called in this run.
ResolveCalled ==
    \/ pc \in {"fetching", "resolving", "saved", "requested", "patching", "done"}
    \/ pc = "failed" /\ err \in {"fetch", "lookup", "patch"}

\* fetch_saved_films completed in this run.
FetchDone ==
    \/ pc \in {"resolving", "saved", "requested", "patching", "done"}
    \/ pc = "failed" /\ err \in {"lookup", "patch"}

\* resolve_film_ids completed in this run.
Collected ==
    \/ pc \in {"saved", "requested", "patching", "done"}
    \/ pc = "failed" /\ err = "patch"

\* The films to add and to remove were computed in this run.
DeltaComputed ==
    \/ pc \in {"requested", "patching", "done"}
    \/ pc = "failed" /\ err = "patch"

\* The run reached the point where the update is made or skipped.
UpdateDecided ==
    \/ pc \in {"patching", "done"}
    \/ pc = "failed" /\ err = "patch"

\* C1: the films to add are the resolved ids that are not on the list and the
\* films to remove the films on the list that are not resolved ids; the two are
\* disjoint, and both are empty when the resolved ids are the list.
DeltaIsDifference ==
    DeltaComputed =>
        /\ Range(to_add) = Ids(film_ids) \ saved
        /\ Range(to_remove) = saved \ Ids(film_ids)
        /\ Range(to_add) \cap Range(to_remove) = {}
        /\ (Ids(film_ids) = saved => to_add = <<>> /\ to_remove = <<>>)

DeltaBothWays == DeltaComputed /\ to_add # <<>> /\ to_remove # <<>>

\* C2: at no time are more than 16 search requests made and not completed.
InFlightBounded == InFlight <= 16

\* C3: a search that fails with a transient error does not end the run in
\* error.
TransientSearchErrorAbsorbed ==
    ~(pc = "failed" /\ err = "lookup" /\ errKind = "transient")

\* C4: no search is made for a movie name the loaded cache holds, the searches
\* made are as many as the movie names the cache does not hold, and a cached
\* name resolves to its cached id.
CacheHitAvoidsSearch ==
    /\ \A n \in DOMAIN film_ids_cache : searchCalls[n] = 0
    /\ ResolveCalled =>
         SumOver(searchCalls, Names) =
           Cardinality({i \in DOMAIN movie_names :
                          movie_names[i] \notin DOMAIN film_ids_cache})
    /\ Collected =>
         \A n \in Range(movie_names) \cap DOMAIN film_ids_cache :
           n \in DOMAIN film_ids /\ film_ids[n] = film_ids_cache[n]

CacheHitAndMiss ==
    /\ Collected
    /\ \E n \in Range(movie_names) : n \in DOMAIN film_ids_cache
    /\ \E n \in Range(movie_names) : searchCalls[n] > 0

\* The movie names that are not cached and that the search finds no film for.
Unmatched ==
    {n \in Range(movie_names) : n \notin DOMAIN film_ids_cache /\ n \notin catalog}

\* C5: the resolved map holds every movie name but those without a match, so
\* one entry less than names when the names are distinct, none is cached and
\* one has no match; no entry has an empty id; and a name without a match is
\* no key of the saved cache either.
NoMatchDropped ==
    Collected =>
        /\ DOMAIN film_ids = Range(movie_names) \ Unmatched
        /\ \A n \in DOMAIN film_ids : film_ids[n] \in FilmIds
        /\ ( /\ Cardinality(Range(movie_names)) = Len(movie_names)
             /\ DOMAIN film_ids_cache \cap Range(movie_names) = {}
             /\ Cardinality(Unmatched) = 1 )
           => Cardinality(DOMAIN film_ids) = Len(movie_names) - 1
        /\ LET parsed == FromReader(cacheFile.bytes) IN
           cacheFile.exists /\ parsed.ok => DOMAIN parsed.map \cap Unmatched = {}

OneOfTwoUnmatched ==
    /\ pc = "done"
    /\ saveOk
    /\ Len(movie_names) = 2
    /\ DOMAIN film_ids_cache = {}
    /\ Cardinality(Unmatched) = 1
    /\ Cardinality(DOMAIN film_ids) = 1

\* C6: when the fetch is done, it made as many page requests as it got
\* responses, only the last response had no cursor, and its result is the
\* union of the films of all the responses.
FetchAllPages ==
    FetchDone =>
        /\ pageRequests = Len(pages)
        /\ Len(pages) >= 1
        /\ pages[Len(pages)].next = None
        /\ \A i \in 1..(Len(pages) - 1) : pages[i].next # None
        /\ saved = UNION {Range(pages[i].items) : i \in DOMAIN pages}

FetchedTwoPages == FetchDone /\ Len(pages) = 2 /\ saved = {"1", "2"}

\* C7: with a list service whose cursor never advances, the fetch of the films
\* on the list still comes to an end and the run ends in error.
FaultyFetchAborts == (pc = "fetching" /\ stuck) ~> (pc = "failed")

\* A failure of the services the run talks to.
ServiceErrors == {"env", "auth", "fetch", "lookup", "patch"}

\* C8: after a run that completed, the next run, unless a service fails it,
\* completes with nothing to add, nothing to remove and no update call.
SecondRunIdempotent ==
    (run > 1 /\ prevOutcome = "done" /\ pc \in {"done", "failed"}
       /\ err \notin ServiceErrors)
    => (pc = "done" /\ to_add = <<>> /\ to_remove = <<>> /\ patchCalls = 0)

\* C9: patch_list is called at most once in a run: once when there is a film
\* to add or to remove, never when there is none; the request holds the films
\* to add and the films to remove as computed, each once.
SingleExactUpdate ==
    /\ patchCalls <= 1
    /\ ~DeltaComputed => patchCalls = 0
    /\ UpdateDecided =>
         patchCalls = IF to_add # <<>> \/ to_remove # <<>> THEN 1 ELSE 0
    /\ patchCalls = 1 =>
         /\ patchSent[1].entries = to_add
         /\ patchSent[1].films_to_remove = to_remove
         /\ Range(to_add) = Ids(film_ids) \ saved
         /\ Range(to_remove) = saved \ Ids(film_ids)
         /\ Len(to_add) = Cardinality(Range(to_add))
         /\ Len(to_remove) = Cardinality(Range(to_remove))

UpdateWithSharedId ==
    /\ patchCalls = 1
    /\ to_add # <<>>
    /\ to_remove # <<>>
    /\ \E n, m \in DOMAIN film_ids : n # m /\ film_ids[n] = film_ids[m]

DryRunOnlyReports ==
    (dry_run /\ pc \in {"done", "failed"} /\ err \notin ServiceErrors \cup {"cache"})
    => (pc = "done" /\ DeltaComputed /\ saveAttempts = 0 /\ patchCalls = 0)

\* C12: every entry of the loaded cache is an entry of the map the run saves.
CacheEntriesKept ==
    saveAttempts = 1 =>
        \A n \in DOMAIN film_ids_cache :
          n \in DOMAIN saveArg /\ saveArg[n] = film_ids_cache[n]

\* The cache was loaded in this run.
CacheLoaded == ResolveCalled \/ pc = "loaded"

\* C13: a name the previous, completed run resolved by a search and saved is
\* not searched in this run: the cache loads and holds the name.
ResolvedThenCached ==
    \A n \in prevResolved :
        /\ searchCalls[n] = 0
        /\ ~(pc = "failed" /\ err = "cache")
        /\ CacheLoaded => n \in DOMAIN film_ids_cache

\* C14: after a failed save of the cache the run goes on: it fails at most on
\* the update call, the films to add and to remove are computed from the
\* resolved ids, and the update is called when there are any.
SaveFailureTolerated ==
    (saveAttempts = 1 /\ ~saveOk) =>
        /\ pc \in {"saved", "requested", "patching", "done", "failed"}
        /\ pc = "failed" => err = "patch"
        /\ DeltaComputed =>
             /\ Range(to_add) = Ids(film_ids) \ saved
             /\ Range(to_remove) = saved \ Ids(film_ids)
        /\ UpdateDecided =>
             patchCalls = IF to_add # <<>> \/ to_remove # <<>> THEN 1 ELSE 0

SaveFailedUpdateDone ==
    saveAttempts = 1 /\ ~saveOk /\ pc = "done" /\ patchCalls = 1

\* Every text to_writer produces for a map.
AllEncodings == UNION {Encodings(m) : m \in Maps}

\* The cache file holds something to_writer does not produce.
Malformed == cacheFile.exists /\ cacheFile.bytes \notin AllEncodings

\* The run has not got to loading the cache.
BeforeLoad ==
    \/ pc \in {"main", "start", "authed"}
    \/ pc = "failed" /\ err \in {"usage", "env", "auth"}

\* C15: without a cache file the loaded cache is empty and the run goes on;
\* with a malformed one the run ends in error at the load, before any search,
\* save or update call.
MissingOrMalformedCache ==
    /\ (pc = "failed" /\ err = "cache") =>
         /\ Malformed
         /\ \A n \in Names : searchCalls[n] = 0
         /\ saveAttempts = 0
         /\ patchCalls = 0
    /\ (saveAttempts = 0 /\ ~cacheFile.exists /\ ~BeforeLoad) =>
         /\ film_ids_cache = EmptyMap
         /\ ~(pc = "failed" /\ err = "cache")
    /\ (saveAttempts = 0 /\ Malformed /\ ~BeforeLoad) =>
         pc = "failed" /\ err = "cache"

MalformedCacheAborts == pc = "failed" /\ err = "cache" /\ Malformed

\* C16: a run that failed on the credentials, the sign-in, the fetch or a
\* search made no update call, takes no further step and does not exit with
\* success; a run that is done had no error and exits with success.
FatalErrorAborts ==
    /\ (pc = "failed" /\ err \in {"env", "auth", "fetch", "lookup"}) =>
         /\ patchCalls = 0
         /\ ExitCode(pc) # 0
         /\ ~ENABLED RunStep
    /\ pc = "done" => err = "" /\ ExitCode(pc) = 0
    /\ err # "" => pc = "failed"

FatalSearchErrorAborted ==
    pc = "failed" /\ err = "lookup" /\ errKind = "fatal" /\ saved # {}

\* The map of the movie names that are cached or found by the search, each to
\* its cached id or else to the film found.
ExpectedIds ==
    [n \in {m \in Range(movie_names) : m \in DOMAIN film_ids_cache \/ m \in catalog}
       |-> IF n \in DOMAIN film_ids_cache THEN film_ids_cache[n] ELSE FilmOf(n)]

\* C17: whatever the order in which the searches complete, every completed
\* search holds the film found for its name, and the resolved map is the map
\* of the movie names that are cached or found.
ResolveOrderIndependent ==
    /\ pc = "resolving" =>
         \A i \in DOMAIN futs :
           ~futs[i].pending =>
             futs[i].details.id =
               IF movie_names[i] \in DOMAIN ExpectedIds
               THEN Some(ExpectedIds[movie_names[i]]) ELSE None
    /\ Collected => film_ids = ExpectedIds

TwoSearchesCollected ==
    /\ Collected
    /\ searchCalls["a"] = 1
    /\ searchCalls["b"] = 1
    /\ DOMAIN film_ids = {"a", "b"}

\* C18: right after a successful save, the cache file parses to the saved map.
SaveLoadRoundTrip ==
    (pc = "saved" /\ saveOk) =>
        cacheFile.exists /\ FromReader(cacheFile.bytes) = ParseOk(saveArg)

\* The films of the responses got so far.
PagesUnion == UNION {Range(pages[i].items) : i \in DOMAIN pages}

\* C19: never is more than one page request without its response; the first
\* request has no cursor and every later one the cursor of the response before
\* it; the entries of the fetch are the films of all the responses so far.
SequentialPagination ==
    /\ pageRequests - Len(pages) \in {0, 1}
    /\ Len(sent) = pageRequests
    /\ (pc = "fetching" /\ pageRequests < PageCountCap) =>
         (pageInFlight <=> pageRequests = Len(pages) + 1)
    /\ pc # "fetching" => ~pageInFlight
    /\ \A i \in DOMAIN sent :
         /\ i - 1 <= Len(pages)
         /\ sent[i].cursor = IF i = 1 THEN None ELSE pages[i - 1].next
    /\ pc = "fetching" =>
         /\ PagesUnion \subseteq entries
         /\ Len(pages) < PageCountCap => entries = PagesUnion

SecondPageRequested ==
    FetchDone /\ Len(sent) = 2 /\ sent[2].cursor # None /\ saved = {"1", "2"}

\* C20: a run that failed in the fetch attempted no save, left the cache file
\* as it was loaded and made no update call; and an update call is only made
\* once the fetch is done and every search has completed.
FetchFailureStopsRun ==
    /\ (pc = "failed" /\ err = "fetch") =>
         /\ saveAttempts = 0
         /\ patchCalls = 0
         /\ IF cacheFile.exists
            THEN FromReader(cacheFile.bytes) = ParseOk(film_ids_cache)
            ELSE film_ids_cache = EmptyMap
    /\ patchCalls > 0 =>
         /\ FetchDone
         /\ saved = PagesUnion
         /\ Len(futs) = Len(movie_names)
         /\ \A i \in DOMAIN futs : ~futs[i].pending

FetchFailedOnSecondPage ==
    /\ pc = "failed"
    /\ err = "fetch"
    /\ Len(pages) = 1
    /\ \E n \in Names : searchCalls[n] > 0

====
